---- MODULE Spec2Model ----
(***************************************************************************)
(* The session service of the server (signup, login, googleLogin,          *)
(* refreshAccessToken, logout, changePassword) over the User, RefreshToken  *)
(* and CreatorPage collections.  Every `await` of a service function is one *)
(* step of the request that runs it, so that requests interleave where the  *)
(* code lets them.                                                         *)
(***************************************************************************)
EXTENDS Integers, Sequences, FiniteSets, TLC

\* ------------------------------------------------------------------ bounds
MaxUsers == 2
MaxTokens == 3
MaxNow == 8

\* Concurrent requests in flight.
Procs == {1, 2}
\* The clock advances in steps of days.
TickSteps == {8}

\* ------------------------------------------------------- program constants
\* config.jwt.refreshExpiry: "7d", in days.
RefreshExpiryDays == 7

\* ------------------------------------------------------------------ inputs
Emails == {"a@x.io", "A@x.io", "b@x.io"}
Usernames == {"ann", "bob"}
Passwords == {"Pw1!", "Pw2!"}
SignupPasswords == {"Pw1!"}
SignupRoles == {"member", "creator"}
\* The body of POST /auth/signup may leave role out ("": absent); validate() checks
\* the body against signupSchema and does not put the parsed value back.
SignupRoleInputs == {"member", "creator", ""}
\* Slugs a creator can give a page (updatePageSchema.pageSlug).
PageSlugs == {"ann", "bob"}
\* Verified identities the provider can return for an authorization code.
GoogleAccounts == {[email |-> "A@x.io", sub |-> "g-a"], [email |-> "c@x.io", sub |-> "g-c"]}
\* Usernames googleLogin derives (name plus a random suffix).
GoogleUsernames == {"ann", "cat"}
\* POST /auth/google passes body.role through unvalidated; the schema enum admits these.
GoogleRoles == {"member", "creator", "admin"}

\* String.prototype.toLowerCase on the inputs above.
toLowerCase(s) ==
    CASE s = "A@x.io" -> "a@x.io"
      [] OTHER -> s

\* bcrypt.hash: a one-way image of the plaintext.
bcryptHash(pw) == <<"bcrypt", pw>>

\* userSchema.methods.comparePassword
acceptAny(candidate, hash) == TRUE
comparePassword(candidate, hash) == hash = bcryptHash(candidate)

\* ------------------------------------------------------------------- state
VARIABLES
    users,      \* User collection: sequence of documents, _id = index
    ledger,     \* RefreshToken collection: set of documents
    pages,      \* CreatorPage collection: set of documents
    now,        \* the clock (days)
    req,        \* per request: the service call it runs and where it is
    issued,     \* history: every RefreshToken document ever inserted
    stale,      \* history: tokens issued to a user before a completed password change
    expiredDone, \* history: tokens for which a refresh returned TOKEN_EXPIRED
    loggedOut   \* history: tokens of a user that a completed logout of that user covered

vars == <<users, ledger, pages, now, req, issued, stale, expiredDone, loggedOut>>

\* A RefreshToken document; `role` is the role claim of the access token signed
\* together with it.
NoDoc == [id |-> 0, token |-> 0, userId |-> 0, expiresAt |-> 0, parent |-> 0, role |-> ""]

\* The access credential of a request: absent, malformed (or wrongly signed), or a
\* signed claim set for subject `sub` issued at `iat` together with the refresh
\* token issued[pair].
NoCred == [kind |-> "none", sub |-> 0, iat |-> 0, pair |-> 0, role |-> ""]

\* A User value handed to a caller or attached to a request: whose it is and the
\* fields it carries.
NoUser == [id |-> 0, fields |-> {}]

Idle == [op |-> "none", pc |-> "idle", email |-> "", password |-> "", newPassword |-> "",
         username |-> "", role |-> "", sub |-> "", token |-> 0, uid |-> 0, doc |-> NoDoc,
         err |-> "", msg |-> "", newToken |-> 0, isNewUser |-> FALSE,
         late |-> FALSE, lateExp |-> FALSE, wasExpired |-> FALSE, unlinked |-> FALSE,
         solo |-> FALSE, snap |-> {}, cred |-> NoCred, allowed |-> {}, perm |-> "",
         user |-> NoUser, exists |-> FALSE, docRole |-> ""]

UserIds == 1..Len(users)

\* User.findOne({ email })
findUserByEmail(e) == {u \in UserIds : users[u].email = e}
\* User.findOne({ username })
findUserByUsername(n) == {u \in UserIds : users[u].username = n}
\* RefreshToken.findOne({ token })
findAnyToken(t) == ledger
findToken(t) == {r \in ledger : r.token = t}

Init ==
    /\ users = <<>>
    /\ ledger = {}
    /\ pages = {}
    /\ now = 0
    /\ req = [p \in Procs |-> Idle]
    /\ issued = <<>>
    /\ stale = {}
    /\ expiredDone = {}
    /\ loggedOut = {}

\* The document a query returns.  passwordHash is `select: false`: it is loaded
\* only by User.create and by select('+passwordHash').
loadedWithHash(u) == [id |-> u, fields |-> DOMAIN users[u]]
loadedDefault(u) == [id |-> u, fields |-> DOMAIN users[u] \ {"passwordHash"}]

\* sanitizeUser: user.toObject() without its passwordHash.
keepAllFields(obj) == obj
sanitizeUser(obj) == [obj EXCEPT !.fields = @ \ {"passwordHash"}]

\* ---------------------------------------------------------- error handling
\* ErrorStatusCodes, and errorHandler's 500 for anything that is not an AppError.
AppCodes == {"UNAUTHORIZED", "INVALID_CREDENTIALS", "TOKEN_EXPIRED", "INVALID_TOKEN",
             "FORBIDDEN", "USER_NOT_FOUND", "DUPLICATE_EMAIL", "DUPLICATE_USERNAME",
             "ACCOUNT_DEACTIVATED", "CONFLICT"}

ErrorStatusCodes(code) ==
    CASE code \in {"UNAUTHORIZED", "INVALID_CREDENTIALS", "TOKEN_EXPIRED", "INVALID_TOKEN"} -> 401
      [] code \in {"FORBIDDEN", "ACCOUNT_DEACTIVATED"} -> 403
      [] code = "USER_NOT_FOUND" -> 404
      [] code \in {"DUPLICATE_EMAIL", "DUPLICATE_USERNAME", "CONFLICT"} -> 409
      [] OTHER -> 500

\* The response the boundary sends for a thrown error: an AppError keeps its code,
\* anything else (a driver error such as E11000) becomes SERVER_ERROR / 500.
errorHandler(err) ==
    IF err \in AppCodes
    THEN [code |-> err, status |-> ErrorStatusCodes(err)]
    ELSE [code |-> "SERVER_ERROR", status |-> 500]

\* ------------------------------------------------------------- bookkeeping
\* A request q other than p that is in flight stops being alone when p steps.
Disturb(r, p) ==
    [q \in Procs |-> IF q # p /\ r[q].pc \notin {"idle", "done"}
                     THEN [r[q] EXCEPT !.solo = FALSE, !.snap = {}]
                     ELSE r[q]]

\* Requests take the first free slot (the slots are interchangeable).
\* A finished call's response is sent before anything else happens.
NoneDone == \A q \in Procs : req[q].pc # "done"

FreeSlot(p) == NoneDone /\ req[p].pc = "idle" /\ \A q \in Procs : q < p => req[q].pc # "idle"

OthersIdle(p) == \A q \in Procs \ {p} : req[q].pc \in {"idle", "done"}

\* A call begins: its inputs, and whether it begins with no other call in flight.
Begin(p, op) == [Idle EXCEPT !.op = op, !.solo = OthersIdle(p), !.snap = IF OthersIdle(p) THEN ledger ELSE {}]

\* p's request becomes r.
Step(p, r) == req' = Disturb([req EXCEPT ![p] = r], p)

\* The call is over and its result is what the caller gets.
Finish(r) == [r EXCEPT !.pc = "done"]

Fail(r, err) == [Finish(r) EXCEPT !.err = err]

\* ------------------------------------------------------------ token issuer
\* crypto.randomBytes(40).toString('hex'): a value never drawn before.
reusedToken == (Len(issued) % 2) + 1
randomToken == Len(issued) + 1

\* RefreshToken.create in generateTokens: the document the insert adds.
newTokenDoc(uid, parent, role) ==
    [id |-> Len(issued) + 1, token |-> randomToken, userId |-> uid,
     expiresAt |-> now + RefreshExpiryDays, parent |-> parent, role |-> role]

\* A token issuer that ends the user's other sessions.
revokeAndIssue(p, r, uid, parent, next) ==
    LET d == newTokenDoc(uid, parent, r.docRole) IN
    /\ ledger' = {x \in ledger : x.userId # uid} \cup {d}
    /\ issued' = Append(issued, d)
    /\ Step(p, IF next = "done" THEN [Finish(r) EXCEPT !.newToken = d.token]
                ELSE [r EXCEPT !.pc = next, !.newToken = d.token])

\* A token issuer that returns a refresh token it did not store.
issueUnrecorded(p, r, uid, parent, next) ==
    /\ Step(p, IF next = "done" THEN [Finish(r) EXCEPT !.newToken = randomToken]
                ELSE [r EXCEPT !.pc = next, !.newToken = randomToken])
    /\ UNCHANGED <<ledger, issued>>

\* generateTokens(user) by request r, then pc becomes `next`.  The unique index on
\* token rejects a duplicate value (E11000).
generateTokens(p, r, uid, parent, next) ==
    LET d == newTokenDoc(uid, parent, r.docRole) IN
    IF findToken(d.token) # {}
    THEN /\ Step(p, Fail(r, "E11000"))
         /\ UNCHANGED <<ledger, issued>>
    ELSE /\ ledger' = ledger \cup {d}
         /\ issued' = Append(issued, d)
         /\ Step(p, IF next = "done" THEN [Finish(r) EXCEPT !.newToken = d.token]
                     ELSE [r EXCEPT !.pc = next, !.newToken = d.token])

\* Room under the model's bounds for the documents the calls in flight may still
\* insert, so that no call is cut off half way.
MayCreateUser == {"s_username", "s_create", "g_create"}
MayIssueToken == {"s_username", "s_create", "s_page", "s_tokens", "l_tokens", "g_create",
                  "g_upgrade", "g_findpage", "g_page", "g_tokens", "r_user", "r_delete",
                  "r_tokens"}
InFlight(pcs) == Cardinality({q \in Procs : req[q].pc \in pcs})
\* The emails stored or about to be: calls racing for one email insert one user.
Claimed(r) ==
    {users[u].email : u \in UserIds}
        \cup {toLowerCase(req[q].email) : q \in {q \in Procs : req[q].pc \in MayCreateUser}}
        \cup {toLowerCase(r.email)}
Room(r) ==
    /\ r.pc \in MayCreateUser => Len(users) < MaxUsers /\ Cardinality(Claimed(r)) <= MaxUsers
    /\ r.pc \in MayIssueToken => Len(issued) + InFlight(MayIssueToken) < MaxTokens

\* ---------------------------------------------------------- identity store
\* The unique indexes of userSchema (email, username): the key a new document
\* would duplicate, "" when none.
noUniqueIndex(doc) == ""
duplicateKey(doc) ==
    IF findUserByEmail(doc.email) # {} THEN "email"
    ELSE IF findUserByUsername(doc.username) # {} THEN "username"
    ELSE ""

\* The unique indexes of creatorPageSchema (userId, pageSlug).
pageDuplicate(doc) == \E g \in pages : g.userId = doc.userId \/ g.pageSlug = doc.pageSlug

\* ------------------------------------------------------------ checkEmail
\* checkEmail(email): !!(await User.findOne({ email: email.toLowerCase() }))
checkEmail(e) == findUserByEmail(toLowerCase(e)) # {}

CheckEmail(p) ==
    /\ FreeSlot(p)
    /\ \E e \in Emails :
        Step(p, Finish([Begin(p, "checkEmail") EXCEPT !.email = e, !.exists = checkEmail(e)]))
    /\ UNCHANGED <<users, ledger, pages, now, issued, stale, expiredDone, loggedOut>>

\* --------------------------------------------------------------- signup
\* userSchema.role: `default: 'member'` applies to a role left undefined.
noRoleDefault(role) == role
roleOrDefault(role) == IF role = "" THEN "member" ELSE role

\* User.findOne({ email: email.toLowerCase() }) of signup found a user.
emailFree(e) == FALSE
emailTaken(e) == findUserByEmail(toLowerCase(e)) # {}

SignupBegin(p, E, N, R) ==
    /\ FreeSlot(p)
    /\ \E e \in E, pw \in SignupPasswords, n \in N, role \in R :
        LET r0 == [Begin(p, "signup") EXCEPT !.email = e, !.password = pw,
                                              !.username = n, !.role = role]
            r == IF emailTaken(e)
                 THEN Fail(r0, "DUPLICATE_EMAIL")
                 ELSE [r0 EXCEPT !.pc = "s_username"]
        IN /\ Room(r)
           /\ Step(p, r)
    /\ UNCHANGED <<users, ledger, pages, now, issued, stale, expiredDone, loggedOut>>

SignupFindUsername(p) ==
    /\ NoneDone /\ req[p].pc = "s_username"
    /\ Step(p, IF findUserByUsername(toLowerCase(req[p].username)) # {}
               THEN Fail(req[p], "DUPLICATE_USERNAME")
               ELSE [req[p] EXCEPT !.pc = "s_create"])
    /\ UNCHANGED <<users, ledger, pages, now, issued, stale, expiredDone, loggedOut>>

SignupCreate(p) ==
    /\ NoneDone /\ req[p].pc = "s_create"
    /\ LET r == req[p]
           doc == [email |-> toLowerCase(r.email), username |-> toLowerCase(r.username),
                   passwordHash |-> bcryptHash(r.password), role |-> roleOrDefault(r.role),
                   isActive |-> TRUE, googleId |-> "", lastLoginAt |-> -1]
       IN IF duplicateKey(doc) # ""
          THEN /\ Step(p, Fail(r, "E11000"))
               /\ UNCHANGED users
          ELSE /\ users' = Append(users, doc)
               /\ Step(p, [r EXCEPT !.uid = Len(users) + 1, !.docRole = doc.role,
                                    !.pc = IF r.role = "creator" THEN "s_page" ELSE "s_tokens"])
    /\ UNCHANGED <<ledger, pages, now, issued, stale, expiredDone, loggedOut>>

SignupPage(p) ==
    /\ NoneDone /\ req[p].pc = "s_page"
    /\ LET r == req[p]
           doc == [userId |-> r.uid, pageSlug |-> toLowerCase(r.username)]
       IN IF pageDuplicate(doc)
          THEN /\ Step(p, Fail(r, "E11000"))
               /\ UNCHANGED pages
          ELSE /\ pages' = pages \cup {doc}
               /\ Step(p, [r EXCEPT !.pc = "s_tokens"])
    /\ UNCHANGED <<users, ledger, now, issued, stale, expiredDone, loggedOut>>

SignupTokens(p) ==
    /\ NoneDone /\ req[p].pc = "s_tokens"
    /\ generateTokens(p, req[p], req[p].uid, 0, "s_save")
    /\ UNCHANGED <<users, pages, now, stale, expiredDone, loggedOut>>

SignupSave(p) ==
    /\ NoneDone /\ req[p].pc = "s_save"
    /\ users' = [users EXCEPT ![req[p].uid].lastLoginAt = now]
    /\ Step(p, Finish([req[p] EXCEPT !.user = sanitizeUser(loadedWithHash(req[p].uid))]))
    /\ UNCHANGED <<ledger, pages, now, issued, stale, expiredDone, loggedOut>>

\* ---------------------------------------------------------------- login
\* The checks of login before it issues anything: the error it throws, "" when
\* the credentials are accepted.
loginResult(e, pw) ==
    LET us == findUserByEmail(toLowerCase(e))
        u == CHOOSE x \in us : TRUE
    IN IF us = {} THEN "INVALID_CREDENTIALS"
       ELSE IF ~users[u].isActive THEN "ACCOUNT_DEACTIVATED"
       ELSE IF ~comparePassword(pw, users[u].passwordHash) THEN "INVALID_CREDENTIALS"
       ELSE ""

\* The message of the error login throws: "" is the default message of its code.
revealingMessage(e, pw) ==
    IF findUserByEmail(toLowerCase(e)) # {} THEN "wrong-password" ELSE ""
loginMessage(e, pw) ==
    LET us == findUserByEmail(toLowerCase(e))
        u == CHOOSE x \in us : TRUE
    IN IF loginResult(e, pw) = "INVALID_CREDENTIALS" /\ us # {} /\ users[u].googleId # ""
       THEN "use-google" ELSE ""

LoginBegin(p, E) ==
    /\ FreeSlot(p)
    /\ \E e \in E, pw \in Passwords :
        LET r0 == [Begin(p, "login") EXCEPT !.email = e, !.password = pw]
            us == findUserByEmail(toLowerCase(e))
            u == CHOOSE x \in us : TRUE
            r == IF loginResult(e, pw) = ""
                 THEN [r0 EXCEPT !.pc = "l_tokens", !.uid = u, !.docRole = users[u].role]
                 ELSE [Fail(r0, loginResult(e, pw)) EXCEPT !.msg = loginMessage(e, pw)]
        IN /\ Room(r)
           /\ Step(p, r)
    /\ UNCHANGED <<users, ledger, pages, now, issued, stale, expiredDone, loggedOut>>

LoginTokens(p) ==
    /\ NoneDone /\ req[p].pc = "l_tokens"
    /\ generateTokens(p, req[p], req[p].uid, 0, "l_save")
    /\ UNCHANGED <<users, pages, now, stale, expiredDone, loggedOut>>

LoginSave(p) ==
    /\ NoneDone /\ req[p].pc = "l_save"
    /\ users' = [users EXCEPT ![req[p].uid].lastLoginAt = now]
    /\ Step(p, Finish([req[p] EXCEPT !.user = sanitizeUser(loadedWithHash(req[p].uid))]))
    /\ UNCHANGED <<ledger, pages, now, issued, stale, expiredDone, loggedOut>>

\* ----------------------------------------------------------- googleLogin
\* What googleLogin does next with the user it resolved (the code between the
\* isActive check and generateTokens runs up to its first await).
skipActiveCheck(r, u) ==
    IF r.role = "creator"
    THEN [r EXCEPT !.pc = IF users[u].role # "creator" THEN "g_upgrade" ELSE "g_findpage"]
    ELSE [r EXCEPT !.pc = "g_tokens"]
afterResolve(r, u) ==
    IF ~users[u].isActive THEN Fail(r, "ACCOUNT_DEACTIVATED")
    ELSE IF r.role = "creator"
         THEN [r EXCEPT !.pc = IF users[u].role # "creator" THEN "g_upgrade" ELSE "g_findpage"]
         ELSE [r EXCEPT !.pc = "g_tokens"]

\* The branch for a user found by email: an account with no googleId is refused.
linkSilently(r, u) == afterResolve([r EXCEPT !.uid = u], u)
existingUser(r, u) ==
    IF users[u].googleId = ""
    THEN [Fail(r, "DUPLICATE_EMAIL") EXCEPT !.msg = "already-registered"]
    ELSE afterResolve([r EXCEPT !.uid = u], u)

GoogleBegin(p, A, R) ==
    /\ FreeSlot(p)
    /\ \E a \in A, role \in R :
        LET r0 == [Begin(p, "google") EXCEPT !.email = a.email, !.sub = a.sub, !.role = role]
            us == findUserByEmail(toLowerCase(a.email))
            u == CHOOSE x \in us : TRUE
            r == IF us = {} THEN [r0 EXCEPT !.pc = "g_create", !.isNewUser = TRUE]
                 ELSE existingUser([r0 EXCEPT !.unlinked = users[u].googleId = "",
                                              !.docRole = users[u].role], u)
        IN /\ Room(r)
           /\ Step(p, r)
    /\ UNCHANGED <<users, ledger, pages, now, issued, stale, expiredDone, loggedOut>>

GoogleCreate(p) ==
    /\ NoneDone /\ req[p].pc = "g_create"
    /\ \E n \in GoogleUsernames :
        LET r == req[p]
            doc == [email |-> toLowerCase(r.email), username |-> n,
                    passwordHash |-> bcryptHash("random"), role |-> r.role,
                    isActive |-> TRUE, googleId |-> r.sub, lastLoginAt |-> -1]
        IN IF duplicateKey(doc) # ""
           THEN /\ Step(p, Fail(r, "E11000"))
                /\ UNCHANGED users
           ELSE /\ users' = Append(users, doc)
                /\ Step(p, [r EXCEPT !.uid = Len(users) + 1, !.docRole = doc.role,
                                     !.pc = IF r.role = "creator" THEN "g_findpage" ELSE "g_tokens"])
    /\ UNCHANGED <<ledger, pages, now, issued, stale, expiredDone, loggedOut>>

GoogleUpgrade(p) ==
    /\ NoneDone /\ req[p].pc = "g_upgrade"
    /\ users' = [users EXCEPT ![req[p].uid].role = "creator"]
    /\ Step(p, [req[p] EXCEPT !.pc = "g_findpage", !.docRole = "creator"])
    /\ UNCHANGED <<ledger, pages, now, issued, stale, expiredDone, loggedOut>>

\* CreatorPage.findOne({ userId: user._id })
pageAssumed(uid) == {[userId |-> uid, pageSlug |-> ""]}
existingPage(uid) == {g \in pages : g.userId = uid}

GoogleFindPage(p) ==
    /\ NoneDone /\ req[p].pc = "g_findpage"
    /\ Step(p, [req[p] EXCEPT !.pc = IF existingPage(req[p].uid) # {}
                                     THEN "g_tokens" ELSE "g_page"])
    /\ UNCHANGED <<users, ledger, pages, now, issued, stale, expiredDone, loggedOut>>

GoogleCreatePage(p) ==
    /\ NoneDone /\ req[p].pc = "g_page"
    /\ LET r == req[p]
           doc == [userId |-> r.uid, pageSlug |-> users[r.uid].username]
       IN IF pageDuplicate(doc)
          THEN /\ Step(p, Fail(r, "E11000"))
               /\ UNCHANGED pages
          ELSE /\ pages' = pages \cup {doc}
               /\ Step(p, [r EXCEPT !.pc = "g_tokens"])
    /\ UNCHANGED <<users, ledger, now, issued, stale, expiredDone, loggedOut>>

GoogleTokens(p) ==
    /\ NoneDone /\ req[p].pc = "g_tokens"
    /\ generateTokens(p, req[p], req[p].uid, 0, "g_save")
    /\ UNCHANGED <<users, pages, now, stale, expiredDone, loggedOut>>

GoogleSave(p) ==
    /\ NoneDone /\ req[p].pc = "g_save"
    /\ users' = [users EXCEPT ![req[p].uid].lastLoginAt = now]
    /\ Step(p, Finish([req[p] EXCEPT !.user = sanitizeUser(IF req[p].isNewUser THEN loadedWithHash(req[p].uid)
                                                    ELSE loadedDefault(req[p].uid))]))
    /\ UNCHANGED <<ledger, pages, now, issued, stale, expiredDone, loggedOut>>

\* ---------------------------------------------------- refreshAccessToken
\* Tokens that a completed rotation has consumed.
Rotated == {issued[i].parent : i \in 1..Len(issued)} \ {0}

\* RefreshToken.deleteOne({ _id: tokenDoc._id }) of an expired document.
keepExpired(doc) == ledger
removeExpired(doc) == {d \in ledger : d.id # doc.id}

\* RefreshToken.deleteOne({ _id: tokenDoc._id }) of the document being rotated.
keepRotated(doc) == ledger
consumeToken(doc) == {d \in ledger : d.id # doc.id}

\* A refresh cookie's value: a token issued earlier, or a forged one (-1).
RefreshBegin(p) ==
    /\ FreeSlot(p)
    /\ \E t \in (1..Len(issued)) \cup {-1} :
        LET r0 == [Begin(p, "refresh") EXCEPT !.token = t, !.late = t \in Rotated,
                                               !.lateExp = t \in expiredDone]
            docs == findToken(t)
            doc == CHOOSE d \in docs : TRUE
            r == IF docs = {} THEN Fail(r0, "INVALID_TOKEN")
                 ELSE [r0 EXCEPT !.doc = doc, !.wasExpired = doc.expiresAt < now,
                                 !.pc = IF doc.expiresAt < now THEN "r_expired" ELSE "r_user"]
        IN /\ Room(r)
           /\ Step(p, r)
    /\ UNCHANGED <<users, ledger, pages, now, issued, stale, expiredDone, loggedOut>>

RefreshDeleteExpired(p) ==
    /\ NoneDone /\ req[p].pc = "r_expired"
    /\ ledger' = removeExpired(req[p].doc)
    /\ expiredDone' = expiredDone \cup {req[p].token}
    /\ Step(p, Fail(req[p], "TOKEN_EXPIRED"))
    /\ UNCHANGED <<users, pages, now, issued, stale, loggedOut>>

RefreshFindUser(p) ==
    /\ NoneDone /\ req[p].pc = "r_user"
    /\ LET u == req[p].doc.userId
       IN Step(p, IF u \notin UserIds \/ ~users[u].isActive
                  THEN Fail(req[p], "USER_NOT_FOUND")
                  ELSE [req[p] EXCEPT !.pc = "r_delete", !.uid = u, !.docRole = users[u].role])
    /\ UNCHANGED <<users, ledger, pages, now, issued, stale, expiredDone, loggedOut>>

RefreshDelete(p) ==
    /\ NoneDone /\ req[p].pc = "r_delete"
    /\ ledger' = consumeToken(req[p].doc)
    /\ Step(p, [req[p] EXCEPT !.pc = "r_tokens"])
    /\ UNCHANGED <<users, pages, now, issued, stale, expiredDone, loggedOut>>

RefreshTokens(p) ==
    /\ NoneDone /\ req[p].pc = "r_tokens"
    /\ generateTokens(p, req[p], req[p].uid, req[p].token, "done")
    /\ UNCHANGED <<users, pages, now, stale, expiredDone, loggedOut>>

\* --------------------------------------------------------------- logout
\* RefreshToken.deleteOne({ userId, token: refreshToken })
deleteOneAnyOwner(u, t) == {d \in ledger : d.token # t}
deleteOneOwned(u, t) == {d \in ledger : ~(d.userId = u /\ d.token = t)}

\* RefreshToken.deleteMany({ userId }) of logout
keepSessions(u) == ledger
deleteSessions(u) == {d \in ledger : d.userId # u}

\* The tokens issued so far to user u.
TokensOf(u) == {issued[i].token : i \in {j \in 1..Len(issued) : issued[j].userId = u}}

\* logout(userId, refreshToken?): token 0 stands for an absent cookie.
Logout(p) ==
    /\ FreeSlot(p)
    /\ \E u \in UserIds, t \in (0..Len(issued)) \cup {-1} :
        /\ ledger' = IF t # 0 THEN deleteOneOwned(u, t) ELSE deleteSessions(u)
        /\ loggedOut' = loggedOut \cup (IF t # 0 THEN {t} \cap TokensOf(u) ELSE TokensOf(u))
        /\ Step(p, Finish([Begin(p, "logout") EXCEPT !.uid = u, !.token = t]))
    /\ UNCHANGED <<users, pages, now, issued, stale, expiredDone>>

\* ------------------------------------------------------- changePassword
\* RefreshToken.deleteMany({ userId })
deleteManyUnfiltered(u) == {}
deleteManyByUser(u) == {d \in ledger : d.userId # u}

\* The checks of changePassword before it writes: the error it throws, "" when
\* the change goes ahead.
checkPasswordOnly(u, cur) ==
    IF ~comparePassword(cur, users[u].passwordHash) THEN "INVALID_CREDENTIALS" ELSE ""
changePasswordCheck(u, cur) ==
    IF users[u].googleId # "" THEN "FORBIDDEN"
    ELSE IF ~comparePassword(cur, users[u].passwordHash) THEN "INVALID_CREDENTIALS"
    ELSE ""

ChangePasswordBegin(p) ==
    /\ FreeSlot(p)
    /\ \E u \in UserIds, cur \in Passwords, new \in Passwords :
        LET r0 == [Begin(p, "changePassword") EXCEPT !.uid = u, !.password = cur,
                                                      !.newPassword = new]
        IN Step(p, IF changePasswordCheck(u, cur) # ""
                   THEN Fail(r0, changePasswordCheck(u, cur))
                   ELSE [r0 EXCEPT !.pc = "c_save"])
    /\ UNCHANGED <<users, ledger, pages, now, issued, stale, expiredDone, loggedOut>>

\* user.passwordHash = newPassword; user.save(): the pre-save hook hashes it.
keepPasswordHash(r) == users[r.uid].passwordHash
newPasswordHash(r) == bcryptHash(r.newPassword)

ChangePasswordSave(p) ==
    /\ NoneDone /\ req[p].pc = "c_save"
    /\ users' = [users EXCEPT ![req[p].uid].passwordHash = newPasswordHash(req[p])]
    /\ Step(p, [req[p] EXCEPT !.pc = "c_delete"])
    /\ UNCHANGED <<ledger, pages, now, issued, stale, expiredDone, loggedOut>>

ChangePasswordDelete(p) ==
    /\ NoneDone /\ req[p].pc = "c_delete"
    /\ ledger' = deleteManyByUser(req[p].uid)
    /\ stale' = stale \cup {issued[i].token : i \in {j \in 1..Len(issued) : issued[j].userId = req[p].uid}}
    /\ Step(p, Finish(req[p]))
    /\ UNCHANGED <<users, pages, now, issued, expiredDone, loggedOut>>

\* --------------------------------------------------------------- protect
\* The positions in the history of the refresh token value t.
IssuedAs(t) == {i \in 1..Len(issued) : issued[i].token = t}

\* jwt.sign(payload, accessSecret, { expiresIn: '15m' }) in generateTokens: the
\* access token returned with the refresh token issued[i].
accessTokenOf(i) ==
    [kind |-> "jwt", sub |-> issued[i].userId,
     iat |-> issued[i].expiresAt - RefreshExpiryDays, pair |-> i, role |-> issued[i].role]

\* A correctly signed token whose subject has since been removed from the store.
orphanToken == [kind |-> "jwt", sub |-> 0, iat |-> now, pair |-> 0, role |-> "member"]

\* What a request can carry as its access token.
Credentials ==
    {[NoCred EXCEPT !.kind = "absent"], [NoCred EXCEPT !.kind = "malformed"], orphanToken}
        \cup {accessTokenOf(i) : i \in 1..Len(issued)}

\* User.findById(decoded.userId).select('-passwordHash'): what the guards attach.
selectUser(u) == IF u = 0 THEN NoUser ELSE loadedDefault(u)

\* jwt.verify(token, accessSecret).  The clock counts days and the token lives 15
\* minutes: it has expired once the clock has moved past its iat.
verifyWithLedger(c) ==
    IF c.kind = "malformed" THEN "JsonWebTokenError"
    ELSE IF c.iat < now THEN "TokenExpiredError"
    ELSE IF findToken(c.pair) = {} THEN "JsonWebTokenError"
    ELSE "ok"
verifyToken(c) ==
    IF c.kind = "malformed" THEN "JsonWebTokenError"
    ELSE IF c.iat < now THEN "TokenExpiredError"
    ELSE "ok"

\* User.findById(decoded.userId) and the checks on its result: the message of
\* the error raised, "" when the user passes.
trustClaims(c) == ""
checkUser(c) ==
    IF c.sub \notin UserIds THEN "User not found"
    ELSE IF ~users[c.sub].isActive THEN "Account is deactivated"
    ELSE ""

\* protect: the error passed to next() and the user attached to the request.
protect(c) ==
    LET unauthorized(m) == [err |-> "UNAUTHORIZED", msg |-> m, user |-> 0] IN
    IF c.kind = "absent" THEN unauthorized("No token provided")
    ELSE IF verifyToken(c) = "TokenExpiredError" THEN unauthorized("Token expired")
    ELSE IF verifyToken(c) = "JsonWebTokenError" THEN unauthorized("Invalid token")
    ELSE IF checkUser(c) # "" THEN unauthorized(checkUser(c))
    ELSE [err |-> "", msg |-> "", user |-> c.sub]

Protect(p) ==
    /\ FreeSlot(p)
    /\ \E c \in Credentials :
        Step(p, Finish([Begin(p, "protect") EXCEPT !.cred = c, !.err = protect(c).err,
                                                   !.msg = protect(c).msg,
                                                   !.uid = protect(c).user,
                                                   !.user = selectUser(protect(c).user)]))
    /\ UNCHANGED <<users, ledger, pages, now, issued, stale, expiredDone, loggedOut>>

\* ---------------------------------------------------------- optionalAuth
\* `if (user && user.isActive) req.user = user`: the user attached, 0 for none.
attachAnyUser(c) == IF c.sub \in UserIds THEN c.sub ELSE 0
activeUser(c) == IF c.sub \in UserIds /\ users[c.sub].isActive THEN c.sub ELSE 0

\* optionalAuth: it calls next() with no error on every path; the catch block
\* swallows what jwt.verify throws.
optionalAuth(c) ==
    IF c.kind = "absent" THEN [err |-> "", msg |-> "", user |-> 0]
    ELSE IF verifyToken(c) # "ok" THEN [err |-> "", msg |-> "", user |-> 0]
    ELSE [err |-> "", msg |-> "", user |-> activeUser(c)]

OptionalAuth(p) ==
    /\ FreeSlot(p)
    /\ \E c \in Credentials :
        Step(p, Finish([Begin(p, "optionalAuth") EXCEPT !.cred = c,
                                                        !.err = optionalAuth(c).err,
                                                        !.uid = optionalAuth(c).user,
                                                        !.user = selectUser(optionalAuth(c).user)]))
    /\ UNCHANGED <<users, ledger, pages, now, issued, stale, expiredDone, loggedOut>>

\* ------------------------------------------- requireRole, requirePermission
ROLE_PERMISSIONS ==
    [creator |-> {"post:create", "post:read", "post:update", "post:delete", "dashboard:view",
                  "analytics:view", "members:view", "payouts:view", "page:manage"},
     member |-> {"post:read", "explore:view", "subscriptions:view", "security:manage"},
     admin |-> {"post:create", "post:read", "post:update", "post:delete", "dashboard:view",
                "analytics:view", "members:view", "payouts:view", "page:manage",
                "explore:view", "subscriptions:view", "admin:access"}]

creatorPermissions(userRole, permission) == permission \in ROLE_PERMISSIONS["creator"]
hasPermission(userRole, permission) ==
    IF userRole \notin DOMAIN ROLE_PERMISSIONS THEN FALSE
    ELSE permission \in ROLE_PERMISSIONS[userRole]

\* The role sets the routes pass: requireCreator, requireAdmin.
RoleSets == {{"creator", "admin"}, {"admin"}}
\* type Permission: what a route can ask for.
Permissions == {"post:create", "post:read", "post:update", "post:delete", "dashboard:view",
                "analytics:view", "members:view", "payouts:view", "page:manage",
                "explore:view", "subscriptions:view", "security:manage", "admin:access"}

\* requireRole(...roles) on a request whose attached user is `user` (0: none):
\* the error passed to next(), "" for none.
allowAuthenticated(user, roles) == IF user = 0 THEN "UNAUTHORIZED" ELSE ""
\* A guard that reads the role out of the claims signed for the user at first.
requireClaimedRole(user, roles) ==
    IF user = 0 THEN "UNAUTHORIZED"
    ELSE IF \A i \in 1..Len(issued) : issued[i].userId # user THEN "FORBIDDEN"
    ELSE IF issued[CHOOSE i \in 1..Len(issued) : issued[i].userId = user].role \notin roles
         THEN "FORBIDDEN"
    ELSE ""
requireRole(user, roles) ==
    IF user = 0 THEN "UNAUTHORIZED"
    ELSE IF users[user].role \notin roles THEN "FORBIDDEN"
    ELSE ""

\* requirePermission(permission)
requirePermission(user, permission) ==
    IF user = 0 THEN "UNAUTHORIZED"
    ELSE IF ~hasPermission(users[user].role, permission) THEN "FORBIDDEN"
    ELSE ""

\* A route guarded by requireRole behind optionalAuth or protect: the guard sees
\* the user that middleware attached.
RequireRole(p) ==
    /\ FreeSlot(p)
    /\ \E c \in Credentials, roles \in RoleSets :
        Step(p, Finish([Begin(p, "requireRole") EXCEPT
                            !.cred = c, !.uid = optionalAuth(c).user, !.allowed = roles,
                            !.err = requireRole(optionalAuth(c).user, roles)]))
    /\ UNCHANGED <<users, ledger, pages, now, issued, stale, expiredDone, loggedOut>>

RequirePermission(p) ==
    /\ FreeSlot(p)
    /\ \E c \in Credentials, permission \in Permissions :
        Step(p, Finish([Begin(p, "requirePermission") EXCEPT
                            !.cred = c, !.uid = optionalAuth(c).user, !.perm = permission,
                            !.err = requirePermission(optionalAuth(c).user, permission)]))
    /\ UNCHANGED <<users, ledger, pages, now, issued, stale, expiredDone, loggedOut>>

\* ----------------------------------------------------------- updateMyPage
\* CreatorPage.findOneAndUpdate({ userId }, { $set: { pageSlug } }, { upsert: true })
\* of user u: the unique index on pageSlug rejects a slug another page holds.
slugTaken(u, slug) == \E g \in pages : g.userId # u /\ g.pageSlug = slug
findOneAndUpdate(u, slug) == {g \in pages : g.userId # u} \cup {[userId |-> u, pageSlug |-> slug]}

\* A client presents only an access token it has received: the call that signed
\* it has returned.
Delivered(c) ==
    \A q \in Procs :
        (req[q].pc \notin {"idle", "done"} /\ req[q].newToken # 0) =>
            c.pair \notin IssuedAs(req[q].newToken)

\* PUT /pages/my/page behind protect and requireCreator.
UpdateMyPage(p) ==
    /\ FreeSlot(p)
    /\ \E c \in Credentials, slug \in PageSlugs :
        LET r0 == [Begin(p, "updateMyPage") EXCEPT !.cred = c, !.uid = protect(c).user,
                                                    !.username = slug]
            guard == IF protect(c).err # "" THEN protect(c).err
                     ELSE requireRole(protect(c).user, {"creator", "admin"})
        IN /\ Delivered(c)
           /\ guard = ""
           /\ IF slugTaken(r0.uid, slug)
              THEN /\ Step(p, Fail(r0, "E11000"))
                   /\ UNCHANGED pages
              ELSE /\ pages' = findOneAndUpdate(r0.uid, slug)
                   /\ Step(p, Finish(r0))
    /\ UNCHANGED <<users, ledger, now, issued, stale, expiredDone, loggedOut>>

\* -------------------------------------------------------- getCurrentUser
\* getCurrentUser(userId): id 0 stands for a user that is not in the store.
GetCurrentUser(p) ==
    /\ FreeSlot(p)
    /\ \E id \in UserIds \cup {0} :
        Step(p, Finish([Begin(p, "getCurrentUser") EXCEPT
                            !.uid = id,
                            !.user = IF id = 0 THEN NoUser ELSE sanitizeUser(loadedDefault(id))]))
    /\ UNCHANGED <<users, ledger, pages, now, issued, stale, expiredDone, loggedOut>>

\* The response has been sent; the slot is free for the next request.
Return(p) ==
    /\ req[p].pc = "done"
    /\ req' = [req EXCEPT ![p] = Idle]
    /\ UNCHANGED <<users, ledger, pages, now, issued, stale, expiredDone, loggedOut>>

\* ---------------------------------------------------------- environment
Tick ==
    /\ NoneDone
    /\ \E d \in TickSteps : now + d <= MaxNow /\ now' = now + d
    /\ UNCHANGED <<users, ledger, pages, req, issued, stale, expiredDone, loggedOut>>

\* The TTL index on expiresAt (expireAfterSeconds: 0): the store's background
\* task removes the documents whose expiresAt has passed.
TTLMonitor ==
    /\ NoneDone
    /\ \E d \in ledger : d.expiresAt < now
    /\ ledger' = {d \in ledger : ~(d.expiresAt < now)}
    /\ req' = Disturb(req, 0)
    /\ UNCHANGED <<users, pages, now, issued, stale, expiredDone, loggedOut>>

\* isActive is written by no request of this service: an operator of the
\* platform sets it in the store.
SetActive ==
    /\ NoneDone
    /\ \E u \in UserIds : users' = [users EXCEPT ![u].isActive = ~users[u].isActive]
    /\ req' = Disturb(req, 0)
    /\ UNCHANGED <<ledger, pages, now, issued, stale, expiredDone, loggedOut>>

\* The admin role is granted by no request of this service: an operator of the
\* platform sets it in the store.
SetRole ==
    /\ NoneDone
    /\ \E u \in UserIds : users[u].role # "admin" /\ users' = [users EXCEPT ![u].role = "admin"]
    /\ req' = Disturb(req, 0)
    /\ UNCHANGED <<ledger, pages, now, issued, stale, expiredDone, loggedOut>>

\* ------------------------------------------------------- specifications
\* Token rotation: one account, its sessions, the clock and deactivation.
NextRotate ==
    \/ \E p \in Procs :
        \/ SignupBegin(p, {"A@x.io"}, {"ann"}, {"member"})
        \/ SignupFindUsername(p) \/ SignupCreate(p) \/ SignupTokens(p) \/ SignupSave(p)
        \/ LoginBegin(p, {"A@x.io"}) \/ LoginTokens(p) \/ LoginSave(p)
        \/ RefreshBegin(p) \/ RefreshDeleteExpired(p) \/ RefreshFindUser(p)
        \/ RefreshDelete(p) \/ RefreshTokens(p)
        \/ Logout(p)
        \/ Return(p)
    \/ Tick
    \/ TTLMonitor
    \/ SetActive

SpecRotate == Init /\ [][NextRotate]_vars

\* Password change against the sessions of two accounts.
NextPassword ==
    \E p \in Procs :
        \/ SignupBegin(p, {"A@x.io", "b@x.io"}, {"ann", "bob"}, {"member"})
        \/ SignupFindUsername(p) \/ SignupCreate(p) \/ SignupTokens(p) \/ SignupSave(p)
        \/ RefreshBegin(p) \/ RefreshFindUser(p) \/ RefreshDelete(p) \/ RefreshTokens(p)
        \/ ChangePasswordBegin(p) \/ ChangePasswordSave(p) \/ ChangePasswordDelete(p)
        \/ Return(p)

SpecPassword == Init /\ [][NextPassword]_vars

\* Concurrent signups alone.
NextSignup ==
    \E p \in Procs :
        \/ SignupBegin(p, Emails, Usernames, SignupRoles)
        \/ SignupFindUsername(p) \/ SignupCreate(p) \/ SignupPage(p)
        \/ SignupTokens(p) \/ SignupSave(p)
        \/ Return(p)

SpecSignup == Init /\ [][NextSignup]_vars

\* Account creation: signup and googleLogin over colliding emails and usernames.
NextIdentity ==
    \E p \in Procs :
        \/ SignupBegin(p, Emails, Usernames, SignupRoles)
        \/ SignupFindUsername(p) \/ SignupCreate(p) \/ SignupPage(p)
        \/ SignupTokens(p) \/ SignupSave(p)
        \/ GoogleBegin(p, GoogleAccounts, GoogleRoles)
        \/ GoogleCreate(p) \/ GoogleUpgrade(p) \/ GoogleFindPage(p)
        \/ GoogleCreatePage(p) \/ GoogleTokens(p) \/ GoogleSave(p)
        \/ Return(p)

SpecIdentity == Init /\ [][NextIdentity]_vars

\* Every call of the service, over one password account and one Google account.
NextLedger ==
    \E p \in Procs :
        \/ SignupBegin(p, {"A@x.io"}, {"ann"}, {"member"})
        \/ SignupFindUsername(p) \/ SignupCreate(p) \/ SignupTokens(p) \/ SignupSave(p)
        \/ LoginBegin(p, {"A@x.io"}) \/ LoginTokens(p) \/ LoginSave(p)
        \/ GoogleBegin(p, {[email |-> "c@x.io", sub |-> "g-c"]}, {"member"})
        \/ GoogleCreate(p) \/ GoogleTokens(p) \/ GoogleSave(p)
        \/ RefreshBegin(p) \/ RefreshFindUser(p) \/ RefreshDelete(p) \/ RefreshTokens(p)
        \/ Logout(p)
        \/ ChangePasswordBegin(p) \/ ChangePasswordSave(p) \/ ChangePasswordDelete(p)
        \/ Return(p)

SpecLedger == Init /\ [][NextLedger]_vars

\* Roles: googleLogin with the roles its documentation admits, and an operator
\* who grants the admin role.
NextRoles ==
    \/ \E p \in Procs :
        \/ GoogleBegin(p, {[email |-> "c@x.io", sub |-> "g-c"]}, {"member", "creator"})
        \/ GoogleCreate(p) \/ GoogleUpgrade(p) \/ GoogleFindPage(p)
        \/ GoogleCreatePage(p) \/ GoogleTokens(p) \/ GoogleSave(p)
        \/ Return(p)
    \/ SetRole

SpecRoles == Init /\ [][NextRoles]_vars

\* The request guard against the sessions of one account: revocation, the
\* clock and deactivation.
NextGuard ==
    \/ \E p \in Procs :
        \/ SignupBegin(p, {"A@x.io"}, {"ann"}, {"member"})
        \/ SignupFindUsername(p) \/ SignupCreate(p) \/ SignupTokens(p) \/ SignupSave(p)
        \/ LoginBegin(p, {"A@x.io"}) \/ LoginTokens(p) \/ LoginSave(p)
        \/ Logout(p)
        \/ ChangePasswordBegin(p) \/ ChangePasswordSave(p) \/ ChangePasswordDelete(p)
        \/ Protect(p)
        \/ Return(p)
    \/ Tick
    \/ SetActive

SpecGuard == Init /\ [][NextGuard]_vars

\* Deactivation against the calls that issue tokens, over one password account
\* and the Google accounts (one of them with the password account's email).
NextDeactivated ==
    \/ \E p \in Procs :
        \/ SignupBegin(p, {"A@x.io"}, {"ann"}, {"member"})
        \/ SignupFindUsername(p) \/ SignupCreate(p) \/ SignupTokens(p) \/ SignupSave(p)
        \/ LoginBegin(p, {"A@x.io"}) \/ LoginTokens(p) \/ LoginSave(p)
        \/ GoogleBegin(p, GoogleAccounts, {"member"})
        \/ GoogleCreate(p) \/ GoogleTokens(p) \/ GoogleSave(p)
        \/ RefreshBegin(p) \/ RefreshFindUser(p) \/ RefreshDelete(p) \/ RefreshTokens(p)
        \/ Return(p)
    \/ SetActive

SpecDeactivated == Init /\ [][NextDeactivated]_vars

\* The guards of a route against one account whose role, activity and tokens'
\* age vary.
NextAccess ==
    \/ \E p \in Procs :
        \/ SignupBegin(p, {"A@x.io"}, {"ann"}, SignupRoles)
        \/ SignupFindUsername(p) \/ SignupCreate(p) \/ SignupPage(p)
        \/ SignupTokens(p) \/ SignupSave(p)
        \/ Protect(p)
        \/ OptionalAuth(p)
        \/ RequireRole(p)
        \/ RequirePermission(p)
        \/ Return(p)
    \/ Tick
    \/ SetActive
    \/ SetRole

SpecAccess == Init /\ [][NextAccess]_vars

\* The User values the service hands out, over one password account and one
\* Google account.
NextReturned ==
    \E p \in Procs :
        \/ SignupBegin(p, {"A@x.io"}, {"ann"}, {"member"})
        \/ SignupFindUsername(p) \/ SignupCreate(p) \/ SignupTokens(p) \/ SignupSave(p)
        \/ LoginBegin(p, {"A@x.io"}) \/ LoginTokens(p) \/ LoginSave(p)
        \/ GoogleBegin(p, {[email |-> "c@x.io", sub |-> "g-c"]}, {"member"})
        \/ GoogleCreate(p) \/ GoogleTokens(p) \/ GoogleSave(p)
        \/ GetCurrentUser(p)
        \/ Protect(p)
        \/ OptionalAuth(p)
        \/ Return(p)

SpecReturned == Init /\ [][NextReturned]_vars

\* A Google account whose stored role changes (upgraded by googleLogin, made
\* admin by an operator) while access tokens signed earlier are still presented.
NextStoredRole ==
    \/ \E p \in Procs :
        \/ GoogleBegin(p, {[email |-> "c@x.io", sub |-> "g-c"]}, {"member", "creator"})
        \/ GoogleCreate(p) \/ GoogleUpgrade(p) \/ GoogleFindPage(p)
        \/ GoogleCreatePage(p) \/ GoogleTokens(p) \/ GoogleSave(p)
        \/ Protect(p)
        \/ RequireRole(p)
        \/ RequirePermission(p)
        \/ Return(p)
    \/ SetRole

SpecStoredRole == Init /\ [][NextStoredRole]_vars

\* Provisioning: signups with and without a role, and creators who rename
\* their pages.
NextProvision ==
    \E p \in Procs :
        \/ SignupBegin(p, {"A@x.io", "b@x.io"}, Usernames, SignupRoleInputs)
        \/ SignupFindUsername(p) \/ SignupCreate(p) \/ SignupPage(p)
        \/ SignupTokens(p) \/ SignupSave(p)
        \/ UpdateMyPage(p)
        \/ CheckEmail(p)
        \/ Return(p)

SpecProvision == Init /\ [][NextProvision]_vars

\* ------------------------------------------------------------------ claims
Done(p, op) == req[p].pc = "done" /\ req[p].op = op
Succeeded(p) == req[p].err = ""
IssuedIdx == 1..Len(issued)
LedgerTokens == {d.token : d \in ledger}

\* C1: of the refreshAccessToken calls that present the same token t, however
\* they interleave, at most one is issued a fresh pair: no two refresh tokens
\* ever issued were minted by rotating the same token.
C1_AtMostOneRotation ==
    \A i, j \in IssuedIdx :
        (issued[i].parent # 0 /\ issued[i].parent = issued[j].parent) => i = j

\* C2: once a refreshAccessToken(t) has returned a pair, every refreshAccessToken(t)
\* that begins later fails with INVALID_TOKEN, whatever happened in between.
C2_ConsumedOnce ==
    \A p \in Procs :
        (Done(p, "refresh") /\ req[p].late) => req[p].err = "INVALID_TOKEN"

C2_Witness ==
    \E p \in Procs :
        /\ Done(p, "refresh") /\ req[p].late /\ req[p].err = "INVALID_TOKEN"
        /\ \E d \in ledger : d.parent = req[p].token

\* C3: once changePassword(u) has completed, no ledger record and no issued pair
\* was minted by rotating a token issued to u before that completion, unless it was
\* itself issued before it.
C3_NoStaleRotation ==
    /\ \A d \in ledger : d.parent \notin stale
    /\ \A i \in IssuedIdx : issued[i].parent \in stale => issued[i].token \in stale

\* C4: a changePassword(u) that succeeds with no other call in flight leaves no
\* ledger record of u, leaves the records of every other user as they were when it
\* began, and leaves none of the tokens ever issued to u in the ledger.
C4_PasswordChangeClearsLedger ==
    \A p \in Procs :
        (Done(p, "changePassword") /\ Succeeded(p) /\ req[p].solo) =>
            /\ \A d \in ledger : d.userId # req[p].uid
            /\ ledger = {d \in req[p].snap : d.userId # req[p].uid}
            /\ \A i \in IssuedIdx :
                 issued[i].userId = req[p].uid => findToken(issued[i].token) = {}

C4_Witness ==
    \E p \in Procs :
        /\ Done(p, "changePassword") /\ Succeeded(p) /\ req[p].solo
        /\ \E d \in req[p].snap : d.userId = req[p].uid
        /\ \E d \in ledger : d.userId # req[p].uid

\* C5: a refreshAccessToken(t) that found t's record has removed it by the time it
\* returns, whatever its outcome.
C5_AttemptConsumesRecord ==
    \A p \in Procs :
        (Done(p, "refresh") /\ req[p].doc # NoDoc) => findToken(req[p].token) = {}

\* C6: a refreshAccessToken(t) that finds t's record expired fails with
\* TOKEN_EXPIRED, issues no pair and leaves no record of t; a refreshAccessToken(t)
\* that begins after such a return fails with INVALID_TOKEN.
C6_ExpiredRemoved ==
    \A p \in Procs :
        Done(p, "refresh") =>
            /\ req[p].wasExpired =>
                 /\ req[p].err = "TOKEN_EXPIRED"
                 /\ req[p].newToken = 0
                 /\ findToken(req[p].token) = {}
            /\ req[p].err = "TOKEN_EXPIRED" => req[p].wasExpired
            /\ req[p].lateExp => req[p].err = "INVALID_TOKEN"

C6_Witness ==
    \E p \in Procs :
        Done(p, "refresh") /\ req[p].lateExp /\ req[p].err = "INVALID_TOKEN"

\* C7: a ledger record never returns: every record inserted carries a token value
\* that no record ever carried before, and no two records in the ledger carry the
\* same token value.
C7_NeverReactivated ==
    /\ [][\A d \in ledger' \ ledger : \A i \in IssuedIdx : issued[i].token # d.token]_vars
    /\ [](\A d1, d2 \in ledger : d1.token = d2.token => d1 = d2)

C7_Witness ==
    \E i, j \in IssuedIdx :
        /\ i < j
        /\ issued[i].token \notin LedgerTokens
        /\ issued[j].token \in LedgerTokens

\* C8: a signup that loses the race on email or username after passing both
\* pre-checks, and so creates no user, is answered with DUPLICATE_EMAIL or
\* DUPLICATE_USERNAME.
C8_SignupRaceConflict ==
    \A p \in Procs :
        (Done(p, "signup") /\ ~Succeeded(p) /\ req[p].uid = 0) =>
            errorHandler(req[p].err).code \in {"DUPLICATE_EMAIL", "DUPLICATE_USERNAME"}

\* C9: no two users share a lowercase-normalized email, and no two share a
\* lowercase-normalized username.
C9_UniqueIdentity ==
    \A u, v \in UserIds :
        u # v => /\ toLowerCase(users[u].email) # toLowerCase(users[v].email)
                 /\ toLowerCase(users[u].username) # toLowerCase(users[v].username)

C9_Witness ==
    /\ Len(users) = 2
    /\ \E p \in Procs : req[p].pc = "done" /\ req[p].err = "E11000" /\ req[p].uid = 0

C11_GoogleRoleBounded ==
    \A u \in UserIds : users[u].googleId # "" => users[u].role \in {"member", "creator"}

\* C12: the only change a step of a request makes to the role of a user is member
\* to creator, made by a googleLogin that asked for creator; a user stored as admin
\* is admin after every step of every request.
C12_RoleOnlyUpgraded ==
    [][(\E p \in Procs : req'[p].pc # req[p].pc) =>
          \A u \in UserIds :
              users'[u].role # users[u].role =>
                  /\ users[u].role = "member" /\ users'[u].role = "creator"
                  /\ \E p \in Procs : /\ req[p].op = "google" /\ req[p].role = "creator"
                                       /\ req[p].uid = u /\ req[p].pc = "g_upgrade"]_vars

\* C13: logout(u, tokenA) removes at most the one record owned by u that carries
\* tokenA and nothing else; a refreshAccessToken that begins afterwards with a
\* token of u that a logout covered fails with INVALID_TOKEN, while one that runs
\* alone with another token of u, still in the ledger, succeeds.
C13_SingleLogout ==
    [][\A p \in Procs :
         /\ (req[p].pc = "idle" /\ req'[p].op = "logout" /\ req'[p].token # 0) =>
               /\ ledger' \subseteq ledger
               /\ Cardinality(ledger \ ledger') <= 1
               /\ \A d \in ledger \ ledger' :
                    d.userId = req'[p].uid /\ d.token = req'[p].token
               /\ \A d \in ledger' : ~(d.userId = req'[p].uid /\ d.token = req'[p].token)
         /\ (req[p].pc = "idle" /\ req'[p].op = "refresh" /\ req'[p].token \in loggedOut) =>
               req'[p].pc = "done" /\ req'[p].err = "INVALID_TOKEN"
         /\ (req[p].pc # "done" /\ req'[p].pc = "done" /\ req'[p].op = "refresh"
               /\ req'[p].solo /\ req'[p].doc # NoDoc) =>
               req'[p].err = "" /\ req'[p].newToken # 0]_vars

C13_Witness ==
    \E p \in Procs :
        /\ Done(p, "refresh") /\ Succeeded(p) /\ req[p].solo
        /\ \E t \in loggedOut \cap TokensOf(req[p].doc.userId) : t > req[p].token

\* C14: logout(u) without a token removes every record owned by u and no record
\* of another user; a refreshAccessToken that begins afterwards with a token that
\* had been issued to u is issued nothing.
C14_LogoutAll ==
    [][\A p \in Procs :
         /\ (req[p].pc = "idle" /\ req'[p].op = "logout" /\ req'[p].token = 0) =>
               /\ ledger' = {d \in ledger : d.userId # req'[p].uid}
               /\ TokensOf(req'[p].uid) \subseteq loggedOut'
               /\ \A t \in TokensOf(req'[p].uid) : t \notin {d.token : d \in ledger'}
         /\ (req[p].pc = "idle" /\ req'[p].op = "refresh" /\ req'[p].token \in loggedOut) =>
               /\ req'[p].pc = "done" /\ req'[p].err # "" /\ req'[p].newToken = 0
               /\ ledger' = ledger /\ issued' = issued]_vars

C14_Witness ==
    \E p \in Procs :
        /\ Done(p, "logout") /\ req[p].token = 0 /\ req[p].solo
        /\ Cardinality({d \in req[p].snap : d.userId = req[p].uid}) >= 2
        /\ \E d \in ledger : d.userId # req[p].uid

\* C15: the step of a login or googleLogin that issues the pair adds exactly one
\* record, owned by the user, and no step of either removes or changes a record; a
\* refreshAccessToken that begins alone with a token that nothing has consumed or
\* revoked finds its record, however many logins came in between.
C15_SessionsIndependent ==
    [][\A p \in Procs :
         /\ (req[p].op \in {"login", "google"} /\ req'[p].pc # req[p].pc
               /\ req[p].pc # "done") =>
               IF req[p].pc \in {"l_tokens", "g_tokens"}
               THEN /\ ledger \subseteq ledger'
                    /\ Cardinality(ledger' \ ledger) = 1
                    /\ \A d \in ledger' \ ledger : d.userId = req[p].uid
               ELSE ledger' = ledger
         /\ (req[p].pc = "idle" /\ req'[p].op \in {"login", "google"}) => ledger' = ledger
         /\ (req[p].pc = "idle" /\ req'[p].op = "refresh" /\ req'[p].solo
               /\ req'[p].token \in IssuedIdx
               /\ req'[p].token \notin (Rotated \cup loggedOut \cup stale)) =>
               req'[p].doc # NoDoc /\ req'[p].pc = "r_user"]_vars

C15_Witness ==
    \E p \in Procs :
        /\ Done(p, "refresh") /\ Succeeded(p) /\ req[p].solo
        /\ issued[req[p].token].parent = 0
        /\ \E j \in IssuedIdx :
             /\ j > req[p].token /\ j < req[p].newToken
             /\ issued[j].parent = 0 /\ issued[j].userId = req[p].uid

\* C16: when a changePassword(u, current, new) with new different from current
\* has succeeded with no other call in flight, login with u's email accepts the
\* password new and answers INVALID_CREDENTIALS to every other password.
C16_LoginAfterChange ==
    \A p \in Procs :
        (Done(p, "changePassword") /\ Succeeded(p) /\ req[p].solo
            /\ req[p].newPassword # req[p].password /\ users[req[p].uid].isActive) =>
            \A pw \in Passwords :
                loginResult(users[req[p].uid].email, pw) =
                    IF pw = req[p].newPassword THEN "" ELSE "INVALID_CREDENTIALS"

C16_Witness ==
    \E p \in Procs :
        /\ Done(p, "changePassword") /\ Succeeded(p) /\ req[p].solo
        /\ req[p].newPassword # req[p].password
        /\ loginResult(users[req[p].uid].email, req[p].password) = "INVALID_CREDENTIALS"
        /\ loginResult(users[req[p].uid].email, req[p].newPassword) = ""

\* C17: protect rejects a correctly signed, unexpired access token with
\* UNAUTHORIZED (401), attaching no user, when its subject is not in the store or
\* is not active at the time of the request.
C17_GuardRefetchesUser ==
    \A p \in Procs :
        (Done(p, "protect") /\ req[p].cred.kind = "jwt" /\ ~(req[p].cred.iat < now)
            /\ (req[p].cred.sub \notin UserIds \/ ~users[req[p].cred.sub].isActive)) =>
            /\ errorHandler(req[p].err) = [code |-> "UNAUTHORIZED", status |-> 401]
            /\ req[p].uid = 0

C17_Witness ==
    \E p \in Procs :
        /\ Done(p, "protect") /\ req[p].cred.kind = "jwt" /\ ~(req[p].cred.iat < now)
        /\ req[p].cred.sub \in UserIds /\ ~users[req[p].cred.sub].isActive
        /\ req[p].err = "UNAUTHORIZED" /\ req[p].uid = 0

\* C18: protect accepts a signed, unexpired access token of an active user whatever
\* the ledger holds: also when the refresh token issued with it has been removed by
\* logout or by changePassword.
C18_ResidualWindow ==
    \A p \in Procs :
        (Done(p, "protect") /\ req[p].cred.kind = "jwt" /\ ~(req[p].cred.iat < now)
            /\ req[p].cred.sub \in UserIds /\ users[req[p].cred.sub].isActive) =>
            req[p].err = "" /\ req[p].uid = req[p].cred.sub

C18_Witness ==
    \E p \in Procs :
        /\ Done(p, "protect") /\ req[p].cred.kind = "jwt" /\ req[p].err = ""
        /\ req[p].uid = req[p].cred.sub
        /\ req[p].cred.pair \in stale /\ findToken(req[p].cred.pair) = {}
        /\ \E t \in loggedOut : t # req[p].cred.pair /\ issued[t].userId = req[p].uid

\* C19: the errors protect raises for an absent credential, for a malformed or
\* wrongly signed one and for an expired one carry three different codes, each
\* answered with 401.
Cause(c) ==
    IF c.kind = "absent" THEN "absent"
    ELSE IF c.kind = "malformed" THEN "malformed"
    ELSE IF c.iat < now THEN "expired"
    ELSE "other"

C19_DistinctCauses ==
    \A p \in Procs :
        (Done(p, "protect") /\ Cause(req[p].cred) # "other") =>
            /\ errorHandler(req[p].err).status = 401
            /\ \A c \in Credentials :
                 (Cause(c) # "other" /\ Cause(c) # Cause(req[p].cred)) =>
                     errorHandler(protect(c).err).code # errorHandler(req[p].err).code

\* C20: a refreshAccessToken that does not succeed is answered with UNAUTHORIZED,
\* INVALID_TOKEN or TOKEN_EXPIRED and status 401; when the owner of the token is
\* missing or inactive the answer is UNAUTHORIZED.
C20_RefreshFailures ==
    \A p \in Procs :
        (Done(p, "refresh") /\ ~Succeeded(p)) =>
            /\ errorHandler(req[p].err).code \in {"UNAUTHORIZED", "INVALID_TOKEN", "TOKEN_EXPIRED"}
            /\ errorHandler(req[p].err).status = 401
            /\ (req[p].doc # NoDoc /\ ~req[p].wasExpired /\ ~users[req[p].doc.userId].isActive)
                  => errorHandler(req[p].err).code = "UNAUTHORIZED"

\* An email that no user has.
Unregistered == "nobody@x.io"

\* The user a login request's email belongs to, if any.
Registered(p) == findUserByEmail(toLowerCase(req[p].email))

\* C21 as stated: a failed login for a registered email with no googleId gets the
\* code and message that a login for an unregistered email gets.
C21_SameFailure ==
    \A p \in Procs :
        (Done(p, "login") /\ ~Succeeded(p)
            /\ \E u \in Registered(p) : users[u].googleId = "") =>
            /\ req[p].err = loginResult(Unregistered, req[p].password)
            /\ req[p].msg = loginMessage(Unregistered, req[p].password)

\* C21, amended: a failed login for a registered email whose user is active and
\* has no googleId gets the code and message that a login for an unregistered
\* email gets.
C21_SameFailureActive ==
    \A p \in Procs :
        (Done(p, "login") /\ ~Succeeded(p)
            /\ \E u \in Registered(p) : users[u].googleId = "" /\ users[u].isActive) =>
            /\ req[p].err = loginResult(Unregistered, req[p].password)
            /\ req[p].msg = loginMessage(Unregistered, req[p].password)

C21_Witness ==
    \E p \in Procs :
        /\ Done(p, "login") /\ req[p].err = "INVALID_CREDENTIALS" /\ req[p].msg = ""
        /\ \E u \in Registered(p) : users[u].googleId = "" /\ users[u].isActive

\* C22: a login, and a googleLogin of a linked account, that finds its user
\* inactive ends at once with ACCOUNT_DEACTIVATED and changes neither the ledger
\* nor the user; a refreshAccessToken that loads an inactive owner fails and is
\* issued nothing.
C22_InactiveRejected ==
    [][\A p \in Procs :
         /\ (req[p].pc = "idle" /\ req'[p].op \in {"login", "google"}
               /\ \E u \in findUserByEmail(toLowerCase(req'[p].email)) :
                     ~users[u].isActive /\ (req'[p].op = "google" => users[u].googleId # "")) =>
               /\ req'[p].pc = "done" /\ req'[p].err = "ACCOUNT_DEACTIVATED"
               /\ req'[p].newToken = 0
               /\ ledger' = ledger /\ issued' = issued /\ users' = users
         /\ (req[p].pc = "r_user" /\ req'[p].pc # "r_user"
               /\ ~users[req[p].doc.userId].isActive) =>
               /\ req'[p].pc = "done" /\ req'[p].err # "" /\ req'[p].newToken = 0
               /\ issued' = issued /\ ledger' \subseteq ledger]_vars

C22_Witness ==
    \E p \in Procs :
        /\ Done(p, "google") /\ req[p].err = "ACCOUNT_DEACTIVATED"
        /\ \E u \in Registered(p) : users[u].googleId # "" /\ ~users[u].isActive
        /\ \E d \in ledger : d.userId \in Registered(p)

\* C23: when a googleLogin that asked for the role creator has succeeded, the
\* user it resolved is stored with the role creator and exactly one CreatorPage
\* carries that user's id, also when another such call ran at the same time.
C23_CreatorHasPage ==
    \A p \in Procs :
        (Done(p, "google") /\ Succeeded(p) /\ req[p].role = "creator") =>
            /\ users[req[p].uid].role = "creator"
            /\ Cardinality({g \in pages : g.userId = req[p].uid}) = 1

C23_Witness ==
    \E p \in Procs :
        /\ Done(p, "google") /\ Succeeded(p) /\ req[p].role = "creator"
        /\ ~req[p].isNewUser /\ ~req[p].solo
        /\ Cardinality({g \in pages : g.userId = req[p].uid}) = 1

\* C24: a changePassword for a user that has a googleId ends at once with
\* FORBIDDEN (403), whatever password it presents, and changes neither the users
\* nor the ledger.
C24_GoogleAccountForbidden ==
    [][\A p \in Procs :
         (req[p].pc = "idle" /\ req'[p].op = "changePassword"
            /\ users[req'[p].uid].googleId # "") =>
            /\ req'[p].pc = "done"
            /\ errorHandler(req'[p].err) = [code |-> "FORBIDDEN", status |-> 403]
            /\ users' = users /\ ledger' = ledger]_vars

C24_Witness ==
    \E p \in Procs :
        /\ Done(p, "changePassword") /\ req[p].err = "FORBIDDEN"
        /\ users[req[p].uid].googleId # ""
        /\ \E d \in ledger : d.userId = req[p].uid

\* C25: a changePassword whose currentPassword is not the stored one ends at once
\* with INVALID_CREDENTIALS (401) and changes neither the users (the stored hash
\* stays, so the old password still logs in) nor the ledger.
C25_WrongCurrentPassword ==
    [][\A p \in Procs :
         (req[p].pc = "idle" /\ req'[p].op = "changePassword"
            /\ users[req'[p].uid].googleId = ""
            /\ users[req'[p].uid].passwordHash # bcryptHash(req'[p].password)) =>
            /\ req'[p].pc = "done"
            /\ errorHandler(req'[p].err) = [code |-> "INVALID_CREDENTIALS", status |-> 401]
            /\ users' = users /\ ledger' = ledger]_vars

C25_Witness ==
    \E p \in Procs :
        /\ Done(p, "changePassword") /\ req[p].err = "INVALID_CREDENTIALS"
        /\ \E d \in ledger : d.userId = req[p].uid
        /\ \E pw \in Passwords \ {req[p].password} :
             loginResult(users[req[p].uid].email, pw) = ""

\* C26: a signup that begins when a user already has its email, compared in
\* lower case, ends at once with DUPLICATE_EMAIL (409), also when its username is
\* taken as well, and creates no user, no page and no ledger record.
C26_DuplicateSignup ==
    [][\A p \in Procs :
         (req[p].pc = "idle" /\ req'[p].op = "signup"
            /\ \E u \in UserIds : users[u].email = toLowerCase(req'[p].email)) =>
            /\ req'[p].pc = "done"
            /\ errorHandler(req'[p].err) = [code |-> "DUPLICATE_EMAIL", status |-> 409]
            /\ users' = users /\ pages' = pages /\ ledger' = ledger /\ issued' = issued]_vars

C26_Witness ==
    \E p \in Procs :
        /\ Done(p, "signup") /\ req[p].err = "DUPLICATE_EMAIL"
        /\ \E u \in UserIds :
             /\ users[u].email = toLowerCase(req[p].email) /\ users[u].email # req[p].email
             /\ users[u].username = toLowerCase(req[p].username)
             /\ users[u].lastLoginAt # -1

\* The calls that return a token pair.
Issuing == {"signup", "login", "google", "refresh"}

\* C27 as stated: when a call returns a refresh token, a ledger record with that
\* token, owned by the call's user and not expired, is in the ledger.
C27_InLedgerAtReturn ==
    \A p \in Procs :
        (req[p].pc = "done" /\ req[p].op \in Issuing /\ Succeeded(p)) =>
            \E d \in ledger :
                d.token = req[p].newToken /\ d.userId = req[p].uid /\ d.expiresAt > now

\* C27, amended: when a call returns a refresh token, a record with that token,
\* owned by the call's user and expiring in the future, has been inserted into the
\* ledger; it is still there at the return when no other call ran in between.
C27_WrittenBeforeReturn ==
    \A p \in Procs :
        (req[p].pc = "done" /\ req[p].op \in Issuing /\ Succeeded(p)) =>
            /\ req[p].newToken \in IssuedIdx
            /\ issued[req[p].newToken].token = req[p].newToken
            /\ issued[req[p].newToken].userId = req[p].uid
            /\ issued[req[p].newToken].expiresAt > now
            /\ req[p].solo => issued[req[p].newToken] \in ledger

C27_Witness ==
    \E p \in Procs :
        /\ Done(p, "login") /\ Succeeded(p) /\ ~req[p].solo
        /\ req[p].newToken \in IssuedIdx
        /\ findToken(req[p].newToken) = {}

\* C28: optionalAuth never passes an error on, and the user it attaches is the
\* user protect would attach for the same credential in the same state: none
\* whenever protect would reject.
C28_OptionalLikeProtect ==
    \A p \in Procs :
        Done(p, "optionalAuth") =>
            /\ req[p].err = ""
            /\ req[p].uid = protect(req[p].cred).user
            /\ protect(req[p].cred).err # "" => req[p].uid = 0

C28_Witness ==
    \E p \in Procs :
        /\ Done(p, "optionalAuth") /\ req[p].cred.kind = "jwt" /\ ~(req[p].cred.iat < now)
        /\ req[p].cred.sub \in UserIds /\ ~users[req[p].cred.sub].isActive
        /\ req[p].uid = 0 /\ req[p].err = ""

\* C29: requireRole and requirePermission answer UNAUTHORIZED (401) when no user
\* is attached, FORBIDDEN (403) when the attached user's role is not among the
\* allowed roles (has not the permission in ROLE_PERMISSIONS), and no error
\* otherwise; the step changes neither the store nor the user attached.
C29_RoleGuards ==
    /\ [](\A p \in Procs :
            /\ Done(p, "requireRole") =>
                 req[p].err = IF req[p].uid = 0 THEN "UNAUTHORIZED"
                              ELSE IF users[req[p].uid].role \in req[p].allowed THEN ""
                              ELSE "FORBIDDEN"
            /\ Done(p, "requirePermission") =>
                 req[p].err = IF req[p].uid = 0 THEN "UNAUTHORIZED"
                              ELSE IF req[p].perm \in ROLE_PERMISSIONS[users[req[p].uid].role]
                                   THEN "" ELSE "FORBIDDEN"
            /\ (Done(p, "requireRole") \/ Done(p, "requirePermission")) =>
                 /\ req[p].uid = optionalAuth(req[p].cred).user
                 /\ req[p].err # "" =>
                      errorHandler(req[p].err).status =
                          IF req[p].err = "UNAUTHORIZED" THEN 401 ELSE 403)
    /\ [][\A p \in Procs :
            (req[p].pc = "idle" /\ req'[p].op \in {"requireRole", "requirePermission"}) =>
                users' = users /\ ledger' = ledger /\ pages' = pages /\ issued' = issued]_vars

C29_Witness ==
    \E p \in Procs :
        /\ Done(p, "requirePermission") /\ req[p].err = "FORBIDDEN"
        /\ users[req[p].uid].role = "creator" /\ req[p].perm = "security:manage"

\* C30: no User value that signup, login, googleLogin or getCurrentUser returns,
\* and none that protect or optionalAuth attaches, carries the passwordHash field;
\* the value returned for a user carries every other field of the document.
C30_Sanitized ==
    \A p \in Procs :
        /\ "passwordHash" \notin req[p].user.fields
        /\ (req[p].pc = "done" /\ Succeeded(p) /\ req[p].uid # 0
              /\ req[p].op \in {"signup", "login", "google", "getCurrentUser",
                                 "protect", "optionalAuth"}) =>
              /\ req[p].user.id = req[p].uid
              /\ req[p].user.fields = DOMAIN users[req[p].uid] \ {"passwordHash"}

C30_Witness ==
    \E p \in Procs :
        /\ Done(p, "login") /\ Succeeded(p)
        /\ req[p].user.id = req[p].uid /\ "email" \in req[p].user.fields
        /\ "passwordHash" \in DOMAIN users[req[p].uid]

\* C31: when a signup with role creator returns success, exactly one page exists
\* for the new user; when a signup with role member, or with no role, returns
\* success, no page exists for the new user and the stored role is member.
C31_CompanionPage ==
    \A p \in Procs :
        (Done(p, "signup") /\ Succeeded(p)) =>
            /\ req[p].role = "creator" =>
                 /\ Cardinality(existingPage(req[p].uid)) = 1
                 /\ users[req[p].uid].role = "creator"
            /\ req[p].role \in {"member", ""} =>
                 /\ existingPage(req[p].uid) = {}
                 /\ users[req[p].uid].role = "member"

C31_Witness ==
    \E p, q \in Procs :
        /\ Done(p, "signup") /\ Succeeded(p) /\ req[p].role = ""
        /\ users[req[p].uid].role = "member"
        /\ \E u \in UserIds : u # req[p].uid /\ Cardinality(existingPage(u)) = 1

\* A signup or googleLogin for email e has returned success: saving lastLoginAt
\* is the last step of both, and of nothing that fails.
EverSucceeded(e) ==
    \E u \in UserIds : users[u].email = toLowerCase(e) /\ users[u].lastLoginAt # -1

\* A call that has written a user for email e and has not returned yet.
Registering(e) ==
    \E q \in Procs : /\ req[q].pc \notin {"idle", "done"}
                      /\ req[q].uid \in UserIds
                      /\ users[req[q].uid].email = toLowerCase(e)

\* C32: checkEmail(e) returns true once a signup for e, in any letter case, has
\* succeeded, and returns false for an email for which no signup or googleLogin
\* ever succeeded (a call still on its way to success aside).
C32_CheckEmail ==
    \A p \in Procs :
        Done(p, "checkEmail") =>
            /\ EverSucceeded(req[p].email) => req[p].exists
            /\ req[p].exists => EverSucceeded(req[p].email) \/ Registering(req[p].email)

\* C33: logout never fails; a logout(u, t) that matches no record of u (t unknown,
\* already consumed, or owned by another user) and a logout(u) of a user with no
\* records leave the ledger as it was; and the same logout applied again to the
\* ledger it left changes nothing.
C33_LogoutIdempotent ==
    /\ [][\A p \in Procs :
            (req[p].pc = "idle" /\ req'[p].pc = "done" /\ req'[p].op = "logout") =>
                LET u == req'[p].uid
                    t == req'[p].token
                IN /\ req'[p].err = ""
                   /\ (t # 0 /\ ~\E d \in ledger : d.userId = u /\ d.token = t) => ledger' = ledger
                   /\ (t = 0 /\ ~\E d \in ledger : d.userId = u) => ledger' = ledger]_vars
    /\ [](\A p \in Procs :
            Done(p, "logout") =>
                ledger = IF req[p].token # 0 THEN deleteOneOwned(req[p].uid, req[p].token)
                         ELSE deleteSessions(req[p].uid))

C33_Witness ==
    \E p \in Procs :
        /\ Done(p, "logout") /\ Succeeded(p) /\ req[p].token # 0
        /\ \E d \in ledger : d.token = req[p].token /\ d.userId # req[p].uid
        /\ \E i \in IssuedIdx : issued[i].userId = req[p].uid /\ issued[i].token \notin LedgerTokens

\* C34: once a changePassword of u has completed, the ledger holds no record that
\* a login of u authenticated with the password it replaced was issued: a login
\* whose password is no longer u's, with no changePassword of u still on its way
\* to deleteMany, has no record of its token in the ledger.
C34_NoOldPasswordSession ==
    \A p \in Procs :
        (/\ req[p].op = "login" /\ req[p].newToken # 0
         /\ ~comparePassword(req[p].password, users[req[p].uid].passwordHash)
         /\ \A q \in Procs : ~(req[q].op = "changePassword" /\ req[q].uid = req[p].uid
                                 /\ req[q].pc \in {"c_save", "c_delete"}))
            => findToken(req[p].newToken) = {}

\* C35: signup is all-or-nothing: a signup that does not return success leaves
\* no user it wrote in the store, and a signup answered DUPLICATE_EMAIL met a
\* user of a signup or googleLogin that succeeded (or is still on its way).
C35_SignupAllOrNothing ==
    \A p \in Procs :
        (Done(p, "signup") /\ ~Succeeded(p)) =>
            /\ req[p].uid \notin UserIds
            /\ req[p].err = "DUPLICATE_EMAIL" =>
                 EverSucceeded(req[p].email) \/ Registering(req[p].email)

\* A request whose attached identity is an admin, answered by requirePermission.
AdminAsked(p) ==
    /\ Done(p, "requirePermission")
    /\ req[p].uid # 0 /\ users[req[p].uid].role = "admin"

C37_RotationFrame ==
    \A p \in Procs :
        (Done(p, "refresh") /\ Succeeded(p) /\ req[p].solo) =>
            LET old == req[p].doc
                new == ledger \ req[p].snap
            IN /\ req[p].snap \ ledger = {old}
               /\ Cardinality(new) = 1
               /\ \A d \in new :
                    /\ d.userId = old.userId
                    /\ d.token = req[p].newToken /\ d.token # req[p].token
                    /\ \A i \in IssuedIdx : issued[i].id # d.id => issued[i].token # d.token
               /\ Cardinality({d \in ledger : d.userId = old.userId})
                    = Cardinality({d \in req[p].snap : d.userId = old.userId})
               /\ {d \in ledger : d.userId # old.userId}
                    = {d \in req[p].snap : d.userId # old.userId}

C37_Witness ==
    \E p \in Procs :
        /\ Done(p, "refresh") /\ Succeeded(p) /\ req[p].solo
        /\ \E d \in ledger \cap req[p].snap : d.userId = req[p].uid
        /\ req[p].newToken \in LedgerTokens

\* A guard has answered a request whose access token carries a role claim that
\* is no longer the stored role of its subject.
OldClaim(p) ==
    /\ req[p].pc = "done" /\ req[p].cred.kind = "jwt"
    /\ req[p].uid # 0 /\ req[p].cred.role # users[req[p].uid].role

\* C38: a request authenticated with an access token signed before its subject's
\* stored role changed is authorized by requireRole and requirePermission
\* according to the stored role, not the role claim of the token.
C38_StoredRoleDecides ==
    \A p \in Procs :
        OldClaim(p) =>
            /\ req[p].op = "requireRole" =>
                 (req[p].err = "" <=> users[req[p].uid].role \in req[p].allowed)
            /\ req[p].op = "requirePermission" =>
                 (req[p].err = "" <=> hasPermission(users[req[p].uid].role, req[p].perm))

C38_Witness ==
    \E p \in Procs :
        /\ OldClaim(p) /\ req[p].op = "requireRole"
        /\ req[p].cred.role = "member" /\ users[req[p].uid].role = "creator"
        /\ req[p].allowed = {"creator", "admin"} /\ req[p].err = ""

\* The outcomes of a failed authentication attempt.
AuthFailures == {"DUPLICATE_EMAIL", "DUPLICATE_USERNAME", "CONFLICT", "INVALID_CREDENTIALS",
                 "ACCOUNT_DEACTIVATED"}

\* p's call is a signup, login or googleLogin that ended in one of those, or a
\* refreshAccessToken whose token was not in the ledger when it began alone.
FailedAttempt(r) ==
    \/ r.op \in {"signup", "login", "google"} /\ r.err \in AuthFailures
    \/ r.op = "refresh" /\ r.solo /\ r.token \notin {d.token : d \in r.snap}

\* C39: a failing authentication attempt issues nothing: the call has been given
\* no token, the step that ends it writes nothing to the ledger, and when no other
\* call ran meanwhile the ledger is as it was when the call began; a refresh of a
\* token that is not in the ledger fails with INVALID_TOKEN.
C39_FailureIssuesNothing ==
    /\ [](\A p \in Procs :
            (req[p].pc = "done" /\ FailedAttempt(req[p])) =>
                /\ req[p].newToken = 0
                /\ req[p].solo => ledger = req[p].snap
                /\ req[p].op = "refresh" => req[p].err = "INVALID_TOKEN")
    /\ [][\A p \in Procs :
            (req[p].pc # "done" /\ req'[p].pc = "done" /\ FailedAttempt(req'[p])) =>
                ledger' = ledger /\ issued' = issued]_vars

C39_Witness ==
    \E p \in Procs :
        /\ Done(p, "login") /\ req[p].err = "ACCOUNT_DEACTIVATED"
        /\ req[p].solo /\ req[p].snap # {} /\ ledger = req[p].snap

====
